---- MODULE Spec2Model ----
(***************************************************************************)
(* Model of pangenome_heritability/kmer/window_generator.py: the k-mer     *)
(* windowing and comparison engine, the alignment reader, the parallel     *)
(* group dispatcher and the column-reduction engine.                       *)
(*                                                                         *)
(* Strings are sequences of one-character strings.  Python's None is the   *)
(* string "None".  A raised exception is a record field `error`.           *)
(***************************************************************************)
EXTENDS Integers, Sequences, FiniteSets, TLC

(***************************************************************************)
(* Bounds of the model.                                                    *)
(***************************************************************************)
MaxSeqLen == 3
MaxK == 3
MaxLines == 3
MaxGroupSeqLen == 2
MaxRows == 3
MaxVecLen == 2
MaxRetainCols == 3

Alphabet == {"A", "C"}

None == "None"

\* All strings over Alphabet of length at most n.
Strings(n) == UNION {[1..m -> Alphabet] : m \in 0..n}

(***************************************************************************)
(* State.                                                                   *)
(***************************************************************************)
VARIABLES
    \* kmer_window / compare_windows applied to one pair of sequences
    seq_ref, seq_var, k, ref_windows, var_windows, compare_out, wpc,
    \* read_fasta_files: the sorted glob result, the loop position, the
    \* mapping built so far, the file read last and the files that parsed
    \* to no record
    file_paths, file_idx, fasta_contents, last_read, zero_parsed, rpc,
    \* process_sequences applied to one group
    ps_file_name, ps_sequences, ps_k, ps_result, ps_pc,
    \* process_fasta_files: the groups of the run, the window size, the pool
    \* size, the futures, the two lists and the returned value
    run_contents, run_k, max_workers, futures, results, errors, returned, dpc,
    \* process_and_merge_results: the input table, the table written from
    \* it, the table written when that one is reduced again
    input_csv, final_csv, remerged_csv, merge_raised, mpc,
    \* retain_changed_columns_group applied to one group's rows
    rc_rows, rc_out, rc_pc

winVars == <<seq_ref, seq_var, k, ref_windows, var_windows, compare_out, wpc>>
readerVars == <<file_paths, file_idx, fasta_contents, last_read, zero_parsed, rpc>>
seqVars == <<ps_file_name, ps_sequences, ps_k, ps_result, ps_pc>>
dispVars == <<run_contents, run_k, max_workers, futures, results, errors, returned, dpc>>
mergeVars == <<input_csv, final_csv, remerged_csv, merge_raised, mpc>>
retainVars == <<rc_rows, rc_out, rc_pc>>

vars == <<winVars, readerVars, seqVars, dispVars, mergeVars, retainVars>>

(***************************************************************************)
(* kmer_window(sequence, k):                                               *)
(*   [sequence[i:i + k] for i in range(len(sequence) - k + 1)]             *)
(* range(n) is empty for n <= 0.                                           *)
(***************************************************************************)
range(n) == IF n > 0 THEN 1..n ELSE {}

kmer_window_short(sequence, kk) ==
    [i \in range(Len(sequence) - kk) |-> SubSeq(sequence, i, i + kk - 1)]

kmer_window(sequence, kk) ==
    [i \in range(Len(sequence) - kk + 1) |-> SubSeq(sequence, i, i + kk - 1)]

LengthMismatchMsg == "Reference and variant windows must have the same length."

Min(x, y) == IF x <= y THEN x ELSE y

(***************************************************************************)
(* compare_windows(ref_windows, var_windows): raises ValueError when the   *)
(* lengths differ, else [0 if ref == var else 1 for ref, var in zip(..)].  *)
(* The outcome is a record: error = None and the vector, or the message    *)
(* of the raised ValueError and no vector.                                 *)
(***************************************************************************)
compare_windows_zip(refw, varw) ==
    [error |-> None, raised |-> FALSE,
     value |-> [i \in 1..Min(Len(refw), Len(varw)) |->
                    IF refw[i] = varw[i] THEN 0 ELSE 1]]

compare_windows(refw, varw) ==
    IF Len(refw) # Len(varw)
    THEN [error |-> LengthMismatchMsg, raised |-> TRUE, value |-> <<>>]
    ELSE [error |-> None, raised |-> FALSE,
          value |-> [i \in 1..Len(refw) |-> IF refw[i] = varw[i] THEN 0 ELSE 1]]

NoOutcome == [error |-> None, raised |-> FALSE, value |-> <<>>]

WindowsIdle ==
    /\ seq_ref = <<>>
    /\ seq_var = <<>>
    /\ k = 0
    /\ ref_windows = <<>>
    /\ var_windows = <<>>
    /\ compare_out = NoOutcome
    /\ wpc = "idle"

(***************************************************************************)
(* Names.  A file's base name is its group stem followed by the suffix     *)
(* "_aligned.fasta"; GroupStems lists the stems in the order sort() and    *)
(* groupby() give them (string order).                                     *)
(***************************************************************************)
GroupStems == <<"Group_1_1", "Group_1_2", "Group_2_1">>

AlignedSuffix == "_aligned.fasta"
InputSuffix == "_input.fasta"

FileName(stem) == <<stem, AlignedSuffix>>

StemRank(stem) == CHOOSE i \in 1..Len(GroupStems) : GroupStems[i] = stem

\* os.path.join(directory, name) and os.path.basename(path)
AlignmentDir == "alignments"
PathOf(name) == <<AlignmentDir, name>>
basename(path) == path[2]

\* file_paths.sort(): ascending string order of the paths
RECURSIVE SortPaths(_)
SortPaths(S) ==
    IF S = {} THEN <<>>
    ELSE LET first == CHOOSE p \in S :
                          \A q \in S : StemRank(basename(p)[1]) <= StemRank(basename(q)[1])
         IN <<first>> \o SortPaths(S \ {first})

seq0 == <<"s", "e", "q", "0">>
seq1 == <<"s", "e", "q", "1">>
seq2 == <<"s", "e", "q", "2">>

Marker == ">"
Whitespace == {" ", "\n", "\t"}

\* str.strip(): drop leading and trailing whitespace
RECURSIVE lstrip(_)
lstrip(line) ==
    IF line # <<>> /\ Head(line) \in Whitespace THEN lstrip(Tail(line)) ELSE line

RECURSIVE rstrip(_)
rstrip(line) ==
    IF line # <<>> /\ line[Len(line)] \in Whitespace
    THEN rstrip(SubSeq(line, 1, Len(line) - 1)) ELSE line

strip(line) == rstrip(lstrip(line))

startswith(line, c) == line # <<>> /\ Head(line) = c

\* ''.join(parts)
RECURSIVE join(_)
join(parts) == IF parts = <<>> THEN <<>> ELSE Head(parts) \o join(Tail(parts))

Record(id, text) == [seq_id |-> id, sequence |-> text]

(***************************************************************************)
(* The body of `with open(file_path) as file`: the loop over the lines     *)
(* and the flush after it.  st holds seq_id, current_seq and sequences.    *)
(***************************************************************************)
ParseLine(st, raw) ==
    LET line == strip(raw)
    IN IF startswith(line, Marker)
       THEN [seq_id |-> Tail(line),
             current_seq |-> <<>>,
             sequences |-> IF st.seq_id # <<>> /\ st.current_seq # <<>>
                           THEN Append(st.sequences,
                                       Record(st.seq_id, join(st.current_seq)))
                           ELSE st.sequences]
       ELSE [st EXCEPT !.current_seq = Append(st.current_seq, line)]

RECURSIVE ParseLines(_, _)
ParseLines(st, lines) ==
    IF lines = <<>> THEN st ELSE ParseLines(ParseLine(st, Head(lines)), Tail(lines))

ParseFasta(lines) ==
    LET st == ParseLines([seq_id |-> <<>>, current_seq |-> <<>>, sequences |-> <<>>],
                         lines)
    IN IF st.seq_id # <<>> /\ st.current_seq # <<>>
       THEN Append(st.sequences, Record(st.seq_id, join(st.current_seq)))
       ELSE st.sequences

Placeholder == <<Record(seq0, <<>>), Record(seq1, <<>>)>>

\* The value stored for a file whose lines parsed to `sequences`
GroupOfEmpty(sequences) == IF sequences = <<>> THEN sequences ELSE sequences

GroupOf(sequences) == IF sequences = <<>> THEN Placeholder ELSE sequences

(***************************************************************************)
(* Files of the model: the lines a file may hold, and a file that cannot   *)
(* be read (open or decoding raises; the except clause skips the file).    *)
(***************************************************************************)
LinePool ==
    { <<">", "s", "e", "q", "0", "\n">>,
      <<">", "s", "e", "q", "1", "\n">>,
      <<">", "\n">>,
      <<"A", "C", "\n">>,
      <<"\n">> }

LineSeqs(n) == UNION {[1..m -> LinePool] : m \in 0..n}

FileContents ==
    {[readable |-> TRUE, lines |-> ls] : ls \in LineSeqs(MaxLines)}
        \cup {[readable |-> FALSE, lines |-> <<>>]}

ReaderStems == {GroupStems[1], GroupStems[2]}

NoFile == [name |-> <<>>, content |-> [readable |-> FALSE, lines |-> <<>>]]

ReaderIdle ==
    /\ file_paths = <<>>
    /\ file_idx = 0
    /\ fasta_contents = <<>>
    /\ last_read = NoFile
    /\ zero_parsed = {}
    /\ rpc = "idle"

(***************************************************************************)
(* process_sequences(file_name, sequences, k).                             *)
(***************************************************************************)
\* str.replace(old, ''): every occurrence of the suffix is removed
replace(name, old) == SelectSeq(name, LAMBDA part : part # old)

chromosome_group_of(file_name) ==
    replace(replace(file_name, AlignedSuffix), InputSuffix)

\* The loop that looks for seq0 and breaks at the first one; ref_sequence
\* stays None (found = FALSE) when there is none.
RECURSIVE FindRef(_)
FindRef(sequences) ==
    IF sequences = <<>> THEN [found |-> FALSE, sequence |-> <<>>]
    ELSE IF Head(sequences).seq_id = seq0
         THEN [found |-> TRUE, sequence |-> Head(sequences).sequence]
         ELSE FindRef(Tail(sequences))

ResultRecord(group, id, comparison) ==
    [chromosome_group |-> group, sequence_id |-> id, comparison |-> comparison]

\* [{.., 'comparison': [0]} for seq_id, _ in sequences if seq_id != 'seq0']
RECURSIVE NoRefResults(_, _)
NoRefResults(group, sequences) ==
    IF sequences = <<>> THEN <<>>
    ELSE IF Head(sequences).seq_id # seq0
         THEN <<ResultRecord(group, Head(sequences).seq_id, <<0>>)>>
                  \o NoRefResults(group, Tail(sequences))
         ELSE NoRefResults(group, Tail(sequences))

\* The loop over the non-reference sequences; a ValueError of
\* compare_windows leaves the loop for the except clause.
RECURSIVE CompareLoop(_, _, _, _, _)
CompareLoop(sequences, refw, kk, group, file_results) ==
    IF sequences = <<>> THEN [results |-> file_results, error |-> None]
    ELSE LET rec == Head(sequences)
             cmp == compare_windows(refw, kmer_window(rec.sequence, kk))
         IN IF rec.seq_id = seq0
            THEN CompareLoop(Tail(sequences), refw, kk, group, file_results)
            ELSE IF cmp.raised
                 THEN [results |-> <<>>, error |-> cmp.error]
                 ELSE CompareLoop(Tail(sequences), refw, kk, group,
                                  Append(file_results,
                                         ResultRecord(group, rec.seq_id, cmp.value)))

MissingReferenceMsg == "No reference sequence found"

process_sequences_strict(file_name, sequences, kk) ==
    LET ref == FindRef(sequences)
        group == chromosome_group_of(file_name)
    IN IF ~ref.found \/ ref.sequence = <<>>
       THEN [file_name |-> file_name, results |-> <<>>, error |-> MissingReferenceMsg]
       ELSE LET out == CompareLoop(sequences, kmer_window(ref.sequence, kk), kk,
                                   group, <<>>)
            IN [file_name |-> file_name, results |-> out.results, error |-> out.error]

process_sequences(file_name, sequences, kk) ==
    LET ref == FindRef(sequences)
        group == chromosome_group_of(file_name)
    IN IF ~ref.found \/ ref.sequence = <<>>
       THEN [file_name |-> file_name,
             results |-> NoRefResults(group, sequences),
             error |-> None]
       ELSE LET out == CompareLoop(sequences, kmer_window(ref.sequence, kk), kk,
                                   group, <<>>)
            IN [file_name |-> file_name, results |-> out.results, error |-> out.error]

NoResult == [file_name |-> <<>>, results |-> <<>>, error |-> None]

\* The groups process_sequences is applied to: every list of records whose
\* identifiers are one of IdLists and whose sequences are short strings.
IdLists ==
    UNION {[1..m -> {seq0, seq1, seq2}] : m \in 0..2}
        \cup { <<seq0, seq1, seq2>>, <<seq1, seq0, seq2>> }

GroupsOf(ids) ==
    {[i \in 1..Len(ids) |-> Record(ids[i], texts[i])] :
        texts \in [1..Len(ids) -> Strings(MaxGroupSeqLen)]}

Groups == UNION {GroupsOf(ids) : ids \in IdLists}

SequencesIdle ==
    /\ ps_file_name = <<>>
    /\ ps_sequences = <<>>
    /\ ps_k = 0
    /\ ps_result = NoResult
    /\ ps_pc = "idle"

(***************************************************************************)
(* process_fasta_files: what the loop over as_completed does with one      *)
(* result.                                                                 *)
(***************************************************************************)
\* Python truth value of result['error']: None and '' are false
Truthy(error) == error # None /\ error # ""

ErrorEntry(result) == <<"Error in ", result.file_name, ": ", result.error>>

CollectErrors(errs, result) ==
    IF Truthy(result.error) THEN Append(errs, ErrorEntry(result)) ELSE errs

CollectResultsAbort(res, result) ==
    IF Truthy(result.error) THEN <<>>
    ELSE IF result.results # <<>> THEN res \o result.results ELSE res

CollectResults(res, result) ==
    IF result.results # <<>> THEN res \o result.results ELSE res

DefaultMaxWorkers == 10

\* The groups of a dispatcher run: a complete group, a group whose last
\* sequence is shorter than the reference, a group without seq0, the
\* placeholder of an empty file, and a group with one variant.
DispatchGroups ==
    { <<Record(seq0, <<"A", "C">>), Record(seq1, <<"A", "C">>), Record(seq2, <<"A", "A">>)>>,
      <<Record(seq0, <<"A", "C">>), Record(seq1, <<"C", "C">>), Record(seq2, <<"A">>)>>,
      <<Record(seq1, <<"A">>), Record(seq2, <<"A", "C">>)>>,
      Placeholder,
      <<Record(seq0, <<"A", "C">>), Record(seq1, <<"C", "C">>)>> }

NoReturn == [processed |-> <<>>, errors |-> <<>>, raised |-> FALSE]


(***************************************************************************)
(* The comparison column of a table: str(list) when it is written and      *)
(* eval(text) when it is read.  A text is the sequence of its tokens,      *)
(* "[", the digits separated by ", ", and "]".                             *)
(***************************************************************************)
str_int(x) == IF x = 0 THEN "0" ELSE IF x = 1 THEN "1" ELSE "?"

int_of(token) == IF token = "0" THEN 0 ELSE IF token = "1" THEN 1 ELSE 2

RECURSIVE join_ints(_)
join_ints(vector) ==
    IF vector = <<>> THEN <<>>
    ELSE IF Len(vector) = 1 THEN <<str_int(vector[1])>>
         ELSE <<str_int(vector[1]), ", ">> \o join_ints(Tail(vector))

str_list(vector) == <<"[">> \o join_ints(vector) \o <<"]">>

eval_list(text) ==
    LET inner == SubSeq(text, 2, Len(text) - 1)
    IN [i \in 1..((Len(inner) + 1) \div 2) |-> int_of(inner[2 * i - 1])]

\* new_row['comparison'] = "[1]"
LiteralOne == <<"[", "1", "]">>

(***************************************************************************)
(* The matrix steps of process_and_merge_results.  A matrix is the         *)
(* sequence of its rows; the column steps work on the sequence of its      *)
(* columns.                                                                *)
(***************************************************************************)
Columns(matrix) ==
    [c \in 1..Len(matrix[1]) |-> [i \in 1..Len(matrix) |-> matrix[i][c]]]

FromColumns(cols, n) == [i \in 1..n |-> [c \in 1..Len(cols) |-> cols[c][i]]]

\* np.hstack((matrix, np.eye(num_variants, dtype=int)))
AugmentNone(matrix) == matrix

Augment(matrix) ==
    [i \in 1..Len(matrix) |->
        matrix[i] \o [j \in 1..Len(matrix) |-> IF i = j THEN 1 ELSE 0]]

\* matrix[:, np.any(matrix != 0, axis=0)]
DropZeroColumnsNone(cols) == cols

DropZeroColumns(cols) ==
    SelectSeq(cols, LAMBDA col : \E i \in 1..Len(col) : col[i] # 0)

\* The order np.unique(axis=1) sorts the columns in: row 0 first
LexLess(a, b) ==
    \E i \in 1..Len(a) : a[i] < b[i] /\ \A j \in 1..(i - 1) : a[j] = b[j]

RECURSIVE SortColumns(_)
SortColumns(S) ==
    IF S = {} THEN <<>>
    ELSE LET least == CHOOSE a \in S : \A b \in S : a = b \/ LexLess(a, b)
         IN <<least>> \o SortColumns(S \ {least})

\* np.unique(matrix, axis=1): the distinct columns, sorted
np_unique_columns_keep(cols) == cols

np_unique_columns(cols) == SortColumns({cols[c] : c \in 1..Len(cols)})

\* np.array(list of lists) of rows of unequal length is no matrix: numpy
\* raises, or builds an array of objects that np.hstack rejects.
Ragged(vectors) == \E i, j \in 1..Len(vectors) : Len(vectors[i]) # Len(vectors[j])

\* matrix.size
MatrixSize(vectors) == IF vectors = <<>> THEN 0 ELSE Len(vectors) * Len(vectors[1])

(***************************************************************************)
(* The body of the loop over df.groupby('chromosome_group') for one group: *)
(* the rows appended to processed_data, or raised.                         *)
(***************************************************************************)
ReduceGroup(group_data) ==
    LET vectors == [i \in 1..Len(group_data) |-> eval_list(group_data[i].comparison)]
    IN IF Ragged(vectors) THEN [raised |-> TRUE, rows |-> <<>>]
       ELSE IF MatrixSize(vectors) = 0 THEN [raised |-> FALSE, rows |-> <<>>]
       ELSE IF Len(group_data) = 1
            THEN [raised |-> FALSE,
                  rows |-> <<[group_data[1] EXCEPT !.comparison = LiteralOne]>>]
            ELSE LET cols == np_unique_columns(DropZeroColumns(Columns(Augment(vectors))))
                     matrix == FromColumns(cols, Len(vectors))
                 IN [raised |-> FALSE,
                     rows |-> [i \in 1..Len(matrix) |->
                                  [group_data[i] EXCEPT !.comparison = str_list(matrix[i])]]]

\* groupby: the keys in ascending order, each with its rows in table order
GroupKeys(rows) == {rows[i].chromosome_group : i \in 1..Len(rows)}

RECURSIVE SortKeys(_)
SortKeys(S) ==
    IF S = {} THEN <<>>
    ELSE LET first == CHOOSE a \in S : \A b \in S : StemRank(a[1]) <= StemRank(b[1])
         IN <<first>> \o SortKeys(S \ {first})

GroupData(rows, key) == SelectSeq(rows, LAMBDA row : row.chromosome_group = key)

RECURSIVE MergeGroups(_, _, _)
MergeGroups(rows, keys, processed_data) ==
    IF keys = <<>> THEN [raised |-> FALSE, rows |-> processed_data]
    ELSE LET out == ReduceGroup(GroupData(rows, Head(keys)))
         IN IF out.raised THEN [raised |-> TRUE, rows |-> <<>>]
            ELSE MergeGroups(rows, Tail(keys), processed_data \o out.rows)

\* A table file: its rows, and whether it has the header line.  A frame
\* without rows is written without header, and pd.read_csv raises on it.
Csv(rows) == [columns |-> rows # <<>>, rows |-> rows]

NoCsv == [columns |-> FALSE, rows |-> <<>>]

\* The keys in the order of their first row (a groupby that does not sort)
RECURSIVE FirstSeenKeys(_)
FirstSeenKeys(rows) ==
    IF rows = <<>> THEN <<>>
    ELSE <<Head(rows).chromosome_group>>
             \o FirstSeenKeys(SelectSeq(Tail(rows),
                    LAMBDA row : row.chromosome_group # Head(rows).chromosome_group))

process_and_merge_results_unsorted(csv) ==
    IF ~csv.columns THEN [raised |-> TRUE, csv |-> NoCsv]
    ELSE LET out == MergeGroups(csv.rows, FirstSeenKeys(csv.rows), <<>>)
         IN IF out.raised THEN [raised |-> TRUE, csv |-> NoCsv]
            ELSE [raised |-> FALSE, csv |-> Csv(out.rows)]

process_and_merge_results(csv) ==
    IF ~csv.columns THEN [raised |-> TRUE, csv |-> NoCsv]
    ELSE LET out == MergeGroups(csv.rows, SortKeys(GroupKeys(csv.rows)), <<>>)
         IN IF out.raised THEN [raised |-> TRUE, csv |-> NoCsv]
            ELSE [raised |-> FALSE, csv |-> Csv(out.rows)]

seq3 == <<"s", "e", "q", "3">>
seq4 == <<"s", "e", "q", "4">>
seq5 == <<"s", "e", "q", "5">>

SeqIdPool == <<seq1, seq2, seq3, seq4, seq5>>

MergeStems == {GroupStems[1], GroupStems[2]}

\* The table whose n rows belong to the groups g and hold the first
\* widths[group] entries of the 0/1 rows of bits: the rows of one group
\* have one length.
TableOf(n, g, widths, bits) ==
    [i \in 1..n |->
        [chromosome_group |-> <<g[i]>>,
         sequence_id |-> SeqIdPool[i],
         comparison |-> str_list(SubSeq(bits[i], 1, widths[g[i]]))]]

ExampleTable ==
    [i \in 1..3 |->
        [chromosome_group |-> <<GroupStems[1]>>,
         sequence_id |-> SeqIdPool[i],
         comparison |-> str_list(<< <<0, 1, 0>>, <<0, 1, 0>>, <<1, 0, 0>> >>[i])]]

(***************************************************************************)
(* retain_changed_columns_group(rows).  Column c of the model is column    *)
(* c - 1 of the code.  An index past the end of a row raises IndexError.   *)
(***************************************************************************)
RECURSIVE ScanColumnFirst(_, _, _)
ScanColumnFirst(rows, c, r) ==
    IF r > Len(rows) THEN "skip"
    ELSE IF Len(rows[r]) < c THEN "raise"
         ELSE IF rows[r][c] # rows[r][1] THEN "retain"
              ELSE ScanColumnFirst(rows, c, r + 1)

\* The inner loop over the rows for one column: it breaks at the first row
\* whose value differs from the one in the preceding column.
RECURSIVE ScanColumn(_, _, _)
ScanColumn(rows, c, r) ==
    IF r > Len(rows) THEN "skip"
    ELSE IF Len(rows[r]) < c THEN "raise"
         ELSE IF rows[r][c] # rows[r][c - 1] THEN "retain"
              ELSE ScanColumn(rows, c, r + 1)

\* The loop over the columns from the second one on
RECURSIVE RetainLoop(_, _, _)
RetainLoop(rows, c, retained) ==
    IF c > Len(rows[1]) THEN [raised |-> FALSE, value |-> retained]
    ELSE LET scan == ScanColumn(rows, c, 1)
         IN IF scan = "raise" THEN [raised |-> TRUE, value |-> <<>>]
            ELSE IF scan = "skip" THEN RetainLoop(rows, c + 1, retained)
                 ELSE IF \E r \in 1..Len(rows) : Len(rows[r]) < c
                      THEN [raised |-> TRUE, value |-> <<>>]
                      ELSE RetainLoop(rows, c + 1,
                               [r \in 1..Len(rows) |-> Append(retained[r], rows[r][c])])

retain_changed_columns_group(rows) ==
    IF rows = <<>> THEN [raised |-> FALSE, value |-> <<>>]
    ELSE IF \E r \in 1..Len(rows) : rows[r] = <<>>
         THEN [raised |-> TRUE, value |-> <<>>]
         ELSE RetainLoop(rows, 2, [r \in 1..Len(rows) |-> <<rows[r][1]>>])

NoRetained == [raised |-> FALSE, value |-> <<>>]

RetainIdle ==
    /\ rc_rows = <<>>
    /\ rc_out = NoRetained
    /\ rc_pc = "idle"

MergeIdle ==
    /\ input_csv = NoCsv
    /\ final_csv = NoCsv
    /\ remerged_csv = NoCsv
    /\ merge_raised = {}
    /\ mpc = "idle"

DispatchIdle ==
    /\ run_contents = <<>>
    /\ run_k = 0
    /\ max_workers = 0
    /\ futures = <<>>
    /\ results = <<>>
    /\ errors = <<>>
    /\ returned = NoReturn
    /\ dpc = "idle"


(***************************************************************************)
(* Specification SpecWindows: the two pure functions applied to every      *)
(* pair of sequences and window size within the bounds.                    *)
(***************************************************************************)
InitWindows ==
    /\ seq_ref \in Strings(MaxSeqLen)
    /\ seq_var \in Strings(MaxSeqLen)
    /\ k \in 1..MaxK
    /\ ref_windows = <<>>
    /\ var_windows = <<>>
    /\ compare_out = NoOutcome
    /\ wpc = "start"
    /\ ReaderIdle /\ SequencesIdle /\ DispatchIdle /\ MergeIdle /\ RetainIdle

RefWindows ==
    /\ wpc = "start"
    /\ ref_windows' = kmer_window(seq_ref, k)
    /\ wpc' = "ref_done"
    /\ UNCHANGED <<seq_ref, seq_var, k, var_windows, compare_out>>
    /\ UNCHANGED <<readerVars, seqVars, dispVars, mergeVars, retainVars>>

VarWindows ==
    /\ wpc = "ref_done"
    /\ var_windows' = kmer_window(seq_var, k)
    /\ wpc' = "var_done"
    /\ UNCHANGED <<seq_ref, seq_var, k, ref_windows, compare_out>>
    /\ UNCHANGED <<readerVars, seqVars, dispVars, mergeVars, retainVars>>

CompareWindows ==
    /\ wpc = "var_done"
    /\ compare_out' = compare_windows(ref_windows, var_windows)
    /\ wpc' = "compared"
    /\ UNCHANGED <<seq_ref, seq_var, k, ref_windows, var_windows>>
    /\ UNCHANGED <<readerVars, seqVars, dispVars, mergeVars, retainVars>>

NextWindows == RefWindows \/ VarWindows \/ CompareWindows

SpecWindows == InitWindows /\ [][NextWindows]_vars

(***************************************************************************)
(* Specification SpecReader: read_fasta_files, one action per iteration of *)
(* the loop over file_paths.  Init is the state after glob and sort.       *)
(***************************************************************************)
InitReader ==
    /\ \E S \in SUBSET ReaderStems :
           file_paths = SortPaths({PathOf(FileName(s)) : s \in S})
    /\ file_idx = 1
    /\ fasta_contents = <<>>
    /\ last_read = NoFile
    /\ zero_parsed = {}
    /\ rpc = "reading"
    /\ WindowsIdle /\ SequencesIdle /\ DispatchIdle /\ MergeIdle /\ RetainIdle

\* fasta_contents[name] = value
SetKey(map, key, value) ==
    [x \in DOMAIN map \cup {key} |-> IF x = key THEN value ELSE map[x]]

ReadFile(content) ==
    /\ rpc = "reading"
    /\ file_idx <= Len(file_paths)
    /\ LET name == basename(file_paths[file_idx])
           sequences == ParseFasta(content.lines)
       IN /\ last_read' = [name |-> name, content |-> content]
          /\ IF content.readable
             THEN /\ fasta_contents' = SetKey(fasta_contents, name, GroupOf(sequences))
                  /\ zero_parsed' = IF sequences = <<>>
                                    THEN zero_parsed \cup {name} ELSE zero_parsed
             ELSE UNCHANGED <<fasta_contents, zero_parsed>>
    /\ file_idx' = file_idx + 1
    /\ UNCHANGED <<file_paths, rpc>>
    /\ UNCHANGED <<winVars, seqVars, dispVars, mergeVars, retainVars>>

ReadSomeFile == \E content \in FileContents : ReadFile(content)

ReaderReturn ==
    /\ rpc = "reading"
    /\ file_idx > Len(file_paths)
    /\ rpc' = "returned"
    /\ UNCHANGED <<file_paths, file_idx, fasta_contents, last_read, zero_parsed>>
    /\ UNCHANGED <<winVars, seqVars, dispVars, mergeVars, retainVars>>

NextReader == ReadSomeFile \/ ReaderReturn

SpecReader == InitReader /\ [][NextReader]_vars


(***************************************************************************)
(* Specification SpecSequences: process_sequences applied to every group   *)
(* of Groups under every window size.                                      *)
(***************************************************************************)
InitSequences ==
    /\ ps_file_name \in {FileName(GroupStems[1])}
    /\ ps_sequences \in Groups
    /\ ps_k \in 1..MaxK
    /\ ps_result = NoResult
    /\ ps_pc = "start"
    /\ WindowsIdle /\ ReaderIdle /\ DispatchIdle /\ MergeIdle /\ RetainIdle

ProcessSequences ==
    /\ ps_pc = "start"
    /\ ps_result' = process_sequences(ps_file_name, ps_sequences, ps_k)
    /\ ps_pc' = "returned"
    /\ UNCHANGED <<ps_file_name, ps_sequences, ps_k>>
    /\ UNCHANGED <<winVars, readerVars, dispVars, mergeVars, retainVars>>

NextSequences == ProcessSequences

SpecSequences == InitSequences /\ [][NextSequences]_vars

(***************************************************************************)
(* Specification SpecDispatch: process_fasta_files from the point where    *)
(* read_fasta_files has returned.  A unit is submitted, picked up by a     *)
(* worker when fewer than max_workers are running, finishes, and is then   *)
(* handed out by as_completed; units finish and are collected in any       *)
(* order.                                                                  *)
(***************************************************************************)
InitDispatch ==
    /\ run_contents \in [{FileName(GroupStems[i]) : i \in 1..Len(GroupStems)}
                            -> DispatchGroups]
    /\ run_k \in 1..MaxK
    /\ max_workers \in {1, DefaultMaxWorkers}
    /\ futures = <<>>
    /\ results = <<>>
    /\ errors = <<>>
    /\ returned = NoReturn
    /\ dpc = "start"
    /\ WindowsIdle /\ ReaderIdle /\ SequencesIdle /\ MergeIdle /\ RetainIdle

Submit ==
    /\ dpc = "start"
    /\ futures' = [name \in DOMAIN run_contents |->
                       [state |-> "pending", result |-> NoResult]]
    /\ dpc' = "collecting"
    /\ UNCHANGED <<run_contents, run_k, max_workers, results, errors, returned>>
    /\ UNCHANGED <<winVars, readerVars, seqVars, mergeVars, retainVars>>

Running == {name \in DOMAIN futures : futures[name].state = "running"}

StartUnit(name) ==
    /\ dpc = "collecting"
    /\ futures[name].state = "pending"
    /\ Cardinality(Running) < max_workers
    /\ futures' = [futures EXCEPT ![name].state = "running"]
    /\ UNCHANGED <<run_contents, run_k, max_workers, results, errors, returned, dpc>>
    /\ UNCHANGED <<winVars, readerVars, seqVars, mergeVars, retainVars>>

FinishUnit(name) ==
    /\ dpc = "collecting"
    /\ futures[name].state = "running"
    /\ futures' = [futures EXCEPT
                      ![name] = [state |-> "done",
                                 result |-> process_sequences(name, run_contents[name],
                                                              run_k)]]
    /\ UNCHANGED <<run_contents, run_k, max_workers, results, errors, returned, dpc>>
    /\ UNCHANGED <<winVars, readerVars, seqVars, mergeVars, retainVars>>

Collect(name) ==
    /\ dpc = "collecting"
    /\ futures[name].state = "done"
    /\ errors' = CollectErrors(errors, futures[name].result)
    /\ results' = CollectResults(results, futures[name].result)
    /\ futures' = [futures EXCEPT ![name].state = "collected"]
    /\ UNCHANGED <<run_contents, run_k, max_workers, returned, dpc>>
    /\ UNCHANGED <<winVars, readerVars, seqVars, mergeVars, retainVars>>

Return ==
    /\ dpc = "collecting"
    /\ \A name \in DOMAIN futures : futures[name].state = "collected"
    /\ returned' = [processed |-> results, errors |-> errors, raised |-> FALSE]
    /\ dpc' = "returned"
    /\ UNCHANGED <<run_contents, run_k, max_workers, futures, results, errors>>
    /\ UNCHANGED <<winVars, readerVars, seqVars, mergeVars, retainVars>>

NextDispatch ==
    \/ Submit
    \/ \E name \in DOMAIN futures : StartUnit(name)
    \/ \E name \in DOMAIN futures : FinishUnit(name)
    \/ \E name \in DOMAIN futures : Collect(name)
    \/ Return

SpecDispatch == InitDispatch /\ [][NextDispatch]_vars


(***************************************************************************)
(* Specification SpecMerge: process_and_merge_results applied to an input  *)
(* table, and applied again to the table it wrote.                         *)
(***************************************************************************)
InitMerge ==
    /\ \/ \E n \in 1..MaxRows :
            \E g \in [1..n -> MergeStems] :
              \E widths \in [MergeStems -> 0..MaxVecLen] :
                \E bits \in [1..n -> [1..MaxVecLen -> {0, 1}]] :
                    input_csv = Csv(TableOf(n, g, widths, bits))
       \/ input_csv = Csv(ExampleTable)
    /\ final_csv = NoCsv
    /\ remerged_csv = NoCsv
    /\ merge_raised = {}
    /\ mpc = "start"
    /\ WindowsIdle /\ ReaderIdle /\ SequencesIdle /\ DispatchIdle /\ RetainIdle

MergeResults ==
    /\ mpc = "start"
    /\ LET out == process_and_merge_results(input_csv)
       IN /\ final_csv' = out.csv
          /\ merge_raised' = IF out.raised THEN merge_raised \cup {"merge"}
                             ELSE merge_raised
    /\ mpc' = "merged"
    /\ UNCHANGED <<input_csv, remerged_csv>>
    /\ UNCHANGED <<winVars, readerVars, seqVars, dispVars, retainVars>>

Remerge ==
    /\ mpc = "merged"
    /\ "merge" \notin merge_raised
    /\ LET out == process_and_merge_results(final_csv)
       IN /\ remerged_csv' = out.csv
          /\ merge_raised' = IF out.raised THEN merge_raised \cup {"remerge"}
                             ELSE merge_raised
    /\ mpc' = "remerged"
    /\ UNCHANGED <<input_csv, final_csv>>
    /\ UNCHANGED <<winVars, readerVars, seqVars, dispVars, retainVars>>

NextMerge == MergeResults \/ Remerge

SpecMerge == InitMerge /\ [][NextMerge]_vars


(***************************************************************************)
(* Specification SpecPipeline: a run of process_fasta_files, then          *)
(* save_kmer_results_to_csv on what it returned, then                      *)
(* process_and_merge_results on the saved table.                           *)
(***************************************************************************)
\* pd.DataFrame(results['processed']).to_csv: the comparison list is
\* written as str(list)
TableRows(records) ==
    [i \in 1..Len(records) |->
        [chromosome_group |-> records[i].chromosome_group,
         sequence_id |-> records[i].sequence_id,
         comparison |-> str_list(records[i].comparison)]]

\* save_kmer_results_to_csv writes nothing when processed is empty, and the
\* read of the missing table raises.
SaveKmerResults ==
    /\ dpc = "returned"
    /\ mpc = "idle"
    /\ input_csv' = IF returned.processed # <<>>
                    THEN Csv(TableRows(returned.processed)) ELSE NoCsv
    /\ mpc' = "start"
    /\ UNCHANGED <<final_csv, remerged_csv, merge_raised>>
    /\ UNCHANGED <<winVars, readerVars, seqVars, dispVars, retainVars>>

NextPipeline == NextDispatch \/ SaveKmerResults \/ MergeResults

SpecPipeline == InitDispatch /\ [][NextPipeline]_vars

(***************************************************************************)
(* Specification SpecRetain: retain_changed_columns_group applied to every *)
(* list of 0/1 rows of one length within the bounds.                       *)
(***************************************************************************)
InitRetain ==
    /\ \E n \in 0..MaxRows :
         \E width \in 0..MaxRetainCols :
             rc_rows \in [1..n -> [1..width -> {0, 1}]]
    /\ rc_out = NoRetained
    /\ rc_pc = "start"
    /\ WindowsIdle /\ ReaderIdle /\ SequencesIdle /\ DispatchIdle /\ MergeIdle

RetainChangedColumns ==
    /\ rc_pc = "start"
    /\ rc_out' = retain_changed_columns_group(rc_rows)
    /\ rc_pc' = "returned"
    /\ UNCHANGED rc_rows
    /\ UNCHANGED <<winVars, readerVars, seqVars, dispVars, mergeVars>>

NextRetain == RetainChangedColumns

SpecRetain == InitRetain /\ [][NextRetain]_vars

(***************************************************************************)
(* Properties of the windowing and comparison engine.                      *)
(***************************************************************************)
ExampleRef == <<"A", "C", "G", "T", "A", "C", "G", "T">>
ExampleVar == <<"A", "C", "G", "T", "T", "C", "G", "T">>

\* C1: for equal-length sequences a, b and 1 <= k <= len(a),
\* compare_windows(kmer_window(a,k), kmer_window(b,k)) does not fail and is
\* a 0/1 vector of length len(a)-k+1 whose entry i is 0 exactly when the
\* two sequences agree on positions i..i+k-1, and which is all-zero iff
\* a = b; "ACGTACGT" against "ACGTTCGT" with k = 4 gives [0,1,1,1,1].
C1_WindowComparison ==
    /\ compare_windows(kmer_window(ExampleRef, 4), kmer_window(ExampleVar, 4)).value
           = <<0, 1, 1, 1, 1>>
    /\ (wpc = "compared" /\ Len(seq_ref) = Len(seq_var) /\ k <= Len(seq_ref)) =>
           LET v == compare_out.value
           IN /\ ~compare_out.raised
              /\ Len(v) = Len(seq_ref) - k + 1
              /\ \A i \in 1..(Len(seq_ref) - k + 1) :
                     /\ v[i] \in {0, 1}
                     /\ v[i] = 0 <=> \A j \in 0..(k - 1) : seq_ref[i + j] = seq_var[i + j]
              /\ (\A i \in 1..Len(v) : v[i] = 0) <=> seq_ref = seq_var

\* Two different sequences of equal length compared with k <= len: the
\* vector has a 0 entry and a 1 entry.
C1_Witness ==
    /\ wpc = "compared"
    /\ Len(seq_ref) = Len(seq_var) /\ k <= Len(seq_ref)
    /\ seq_ref # seq_var
    /\ \E i, j \in 1..Len(compare_out.value) :
           compare_out.value[i] = 0 /\ compare_out.value[j] = 1

\* C8: compare_windows fails with the length-mismatch ValueError exactly
\* when the two window lists differ in length, and then returns no vector.
C8_LengthMismatch ==
    wpc = "compared" =>
        /\ compare_out.raised <=> Len(ref_windows) # Len(var_windows)
        /\ compare_out.raised =>
               compare_out.error = LengthMismatchMsg /\ compare_out.value = <<>>
        /\ ~compare_out.raised =>
               compare_out.error = None /\ Len(compare_out.value) = Len(ref_windows)

\* Two non-empty window lists of different lengths were compared.
C8_Witness ==
    /\ wpc = "compared"
    /\ compare_out.raised
    /\ Len(ref_windows) > 0 /\ Len(var_windows) > 0
    /\ Len(ref_windows) # Len(var_windows)

(***************************************************************************)
(* Properties of process_sequences.                                        *)
(***************************************************************************)
HasSeq0(sequences) == \E i \in 1..Len(sequences) : sequences[i].seq_id = seq0

\* C9: on a group without a seq0 record process_sequences succeeds (error
\* is None) and returns one record per sequence, in encounter order, each
\* with comparison [0].
C9_MissingReference ==
    (ps_pc = "returned" /\ ~HasSeq0(ps_sequences)) =>
        /\ ps_result.error = None
        /\ ps_result.file_name = ps_file_name
        /\ Len(ps_result.results) = Len(ps_sequences)
        /\ \A i \in 1..Len(ps_sequences) :
               /\ ps_result.results[i].sequence_id = ps_sequences[i].seq_id
               /\ ps_result.results[i].comparison = <<0>>
               /\ ps_result.results[i].chromosome_group = <<GroupStems[1]>>

\* A group of two sequences of different lengths and no seq0 was processed.
C9_Witness ==
    /\ ps_pc = "returned"
    /\ ~HasSeq0(ps_sequences)
    /\ Len(ps_sequences) = 2
    /\ Len(ps_sequences[1].sequence) # Len(ps_sequences[2].sequence)
    /\ Len(ps_result.results) = 2

(***************************************************************************)
(* Properties of read_fasta_files.                                         *)
(***************************************************************************)
IsIdentifierLine(raw) == startswith(strip(raw), Marker)

NoIdentifierLine(lines) == \A i \in 1..Len(lines) : ~IsIdentifierLine(lines[i])

OnlyIdentifierLines(lines) == \A i \in 1..Len(lines) : IsIdentifierLine(lines[i])

\* C10: a file that parses to no sequence record (an empty file, a file
\* without identifier line, a file of identifier lines only) is mapped to
\* [('seq0',''), ('seq1','')], and no key is mapped to an empty list.
C10_PlaceholderGroup ==
    /\ \A name \in DOMAIN fasta_contents : fasta_contents[name] # <<>>
    /\ \A name \in zero_parsed :
           name \in DOMAIN fasta_contents /\ fasta_contents[name] = Placeholder
    /\ (last_read.content.readable
            /\ \/ last_read.content.lines = <<>>
               \/ NoIdentifierLine(last_read.content.lines)
               \/ OnlyIdentifierLines(last_read.content.lines)
               \/ ParseFasta(last_read.content.lines) = <<>>) =>
           /\ last_read.name \in DOMAIN fasta_contents
           /\ fasta_contents[last_read.name] = Placeholder

\* read_fasta_files returned after reading a file of identifier lines only
\* and a file that holds a record.
C10_Witness ==
    /\ rpc = "returned"
    /\ last_read.content.readable
    /\ last_read.content.lines # <<>>
    /\ OnlyIdentifierLines(last_read.content.lines)
    /\ fasta_contents[last_read.name] = Placeholder
    /\ \E name \in DOMAIN fasta_contents : name \notin zero_parsed

(***************************************************************************)
(* Properties of process_fasta_files.                                      *)
(***************************************************************************)
WindowCount(sequence, kk) ==
    IF Len(sequence) - kk + 1 > 0 THEN Len(sequence) - kk + 1 ELSE 0

\* The group has a reference and a non-reference sequence whose window
\* count differs from the reference's.
GroupFails(sequences, kk) ==
    /\ FindRef(sequences).found /\ FindRef(sequences).sequence # <<>>
    /\ \E i \in 1..Len(sequences) :
           /\ sequences[i].seq_id # seq0
           /\ WindowCount(sequences[i].sequence, kk)
                  # WindowCount(FindRef(sequences).sequence, kk)

NonReference(sequences) == SelectSeq(sequences, LAMBDA rec : rec.seq_id # seq0)

RecordsOfGroup(list, group) == SelectSeq(list, LAMBDA rec : rec.chromosome_group = group)

Occurrences(list, x) == Cardinality({i \in 1..Len(list) : list[i] = x})

Collected == {name \in DOMAIN futures : futures[name].state = "collected"}

\* C7: a failing group adds one entry "Error in <file>: <message>" to
\* errors and nothing is raised, and every other group's records are all in
\* processed, in whatever order the units complete.
C7_FailureIsolation ==
    /\ \A name \in Collected :
           IF GroupFails(run_contents[name], run_k)
           THEN /\ Occurrences(errors, <<"Error in ", name, ": ", LengthMismatchMsg>>) = 1
                /\ RecordsOfGroup(results, chromosome_group_of(name)) = <<>>
           ELSE LET recs == RecordsOfGroup(results, chromosome_group_of(name))
                    nonref == NonReference(run_contents[name])
                IN /\ Len(recs) = Len(nonref)
                   /\ \A i \in 1..Len(nonref) : recs[i].sequence_id = nonref[i].seq_id
    /\ Len(errors) = Cardinality({name \in Collected :
                                     GroupFails(run_contents[name], run_k)})
    /\ dpc = "returned" =>
           /\ ~returned.raised
           /\ Collected = DOMAIN run_contents
           /\ returned.processed = results /\ returned.errors = errors

\* A run returned in which the group of the first file failed and the
\* records of other groups are in processed.
C7_Witness ==
    /\ dpc = "returned"
    /\ Len(returned.errors) = 1
    /\ returned.processed # <<>>
    /\ \E name \in DOMAIN run_contents :
           /\ GroupFails(run_contents[name], run_k)
           /\ StemRank(name[1]) = 1

(***************************************************************************)
(* Properties of process_and_merge_results.                                *)
(***************************************************************************)
Merged == mpc \in {"merged", "remerged"} /\ "merge" \notin merge_raised

InputGroup(key) == GroupData(input_csv.rows, key)

OutputGroup(key) == GroupData(final_csv.rows, key)

VectorsOf(rows) == [i \in 1..Len(rows) |-> eval_list(rows[i].comparison)]

InputKeys == GroupKeys(input_csv.rows)

\* A group of the input table that the column reduction applies to: two or
\* more rows and a matrix with at least one column.
ReducedKeys ==
    {key \in InputKeys :
        Len(InputGroup(key)) >= 2 /\ Len(VectorsOf(InputGroup(key))[1]) >= 1}

AllZero(col) == \A i \in 1..Len(col) : col[i] = 0

UnitVector(n, i) == [j \in 1..n |-> IF i = j THEN 1 ELSE 0]

\* The columns of [M | I_n], as a set
AugmentedColumns(matrix) ==
    {[i \in 1..Len(matrix) |-> matrix[i][c]] : c \in 1..Len(matrix[1])}
        \cup {UnitVector(Len(matrix), i) : i \in 1..Len(matrix)}

ColumnAt(matrix, c) == [i \in 1..Len(matrix) |-> matrix[i][c]]

\* C2: after the column reduction of a group with n >= 2 rows the reduced
\* matrix has n rows and no two of them are equal, also when original
\* difference vectors were identical.
C2_RowsDistinct ==
    Merged =>
        \A key \in ReducedKeys :
            LET out == VectorsOf(OutputGroup(key))
            IN /\ Len(out) = Len(InputGroup(key))
               /\ \A i, j \in 1..Len(out) : i # j => out[i] # out[j]

\* A group with two identical non-empty difference vectors was reduced.
C2_Witness ==
    /\ Merged
    /\ \E key \in ReducedKeys :
           LET in == VectorsOf(InputGroup(key))
           IN /\ \E i, j \in 1..Len(in) : i # j /\ in[i] = in[j]
              /\ Len(OutputGroup(key)) = Len(in)

C4_Idempotent ==
    mpc = "remerged" =>
        /\ Len(remerged_csv.rows) = Len(final_csv.rows)
        /\ \A i \in 1..Len(final_csv.rows) : remerged_csv.rows[i] = final_csv.rows[i]
        /\ "remerge" \in merge_raised => final_csv.rows = <<>>

\* The written table held a reduced group of several rows and a single-row
\* group, and was reduced again.
C4_Witness ==
    /\ mpc = "remerged"
    /\ "remerge" \notin merge_raised
    /\ \E key \in GroupKeys(final_csv.rows) : Len(OutputGroup(key)) >= 2
    /\ \E key \in GroupKeys(final_csv.rows) :
           Len(OutputGroup(key)) = 1 /\ OutputGroup(key)[1].comparison = LiteralOne
    /\ remerged_csv.rows = final_csv.rows

\* C5: every group with exactly one row in the input table produces exactly
\* one output row, whose comparison is the literal [1], whatever the row's
\* vector is (the empty vector included).
C5_SingleRowLiteral ==
    Merged =>
        \A key \in InputKeys :
            Len(InputGroup(key)) = 1 =>
                /\ Len(OutputGroup(key)) = 1
                /\ OutputGroup(key)[1].comparison = LiteralOne

\* C6: the output holds, for every group of the input table, one row per
\* input row, in input order and with the row's sequence_id.
C6_RowsPreserved ==
    Merged =>
        \A key \in InputKeys :
            /\ Len(OutputGroup(key)) = Len(InputGroup(key))
            /\ \A i \in 1..Len(InputGroup(key)) :
                   OutputGroup(key)[i].sequence_id = InputGroup(key)[i].sequence_id


(***************************************************************************)
(* Properties of a whole run.                                              *)
(***************************************************************************)
\* The records of the run's groups in the order of the sorted file names:
\* what a run gives whose units complete in submission order.
RECURSIVE RecordsInOrder(_)
RecordsInOrder(paths) ==
    IF paths = <<>> THEN <<>>
    ELSE process_sequences(basename(Head(paths)),
                           run_contents[basename(Head(paths))], run_k).results
             \o RecordsInOrder(Tail(paths))

SubmissionOrder == RecordsInOrder(SortPaths({PathOf(name) : name \in DOMAIN run_contents}))

Positions(list, group) == {i \in 1..Len(list) : list[i].chromosome_group = group}

Changes(rows, c) == \E r \in 1..Len(rows) : rows[r][c] # rows[r][c - 1]

\* The retained column indices in increasing order: the first column, and
\* every later one that changes.
RECURSIVE KeptFrom(_, _)
KeptFrom(rows, c) ==
    IF c > Len(rows[1]) THEN <<>>
    ELSE (IF c = 1 \/ Changes(rows, c) THEN <<c>> ELSE <<>>) \o KeptFrom(rows, c + 1)

\* C12: for a non-empty list of equal-length rows the result has the same
\* number of rows in the same order, each holding the values of the
\* retained columns in increasing order, where the first column is always
\* retained and a later one iff some row differs there from the column
\* immediately before it; an empty list gives an empty list.
C12_RetainChangedColumns ==
    rc_pc = "returned" =>
        /\ ~rc_out.raised
        /\ Len(rc_out.value) = Len(rc_rows)
        /\ \A r \in 1..Len(rc_rows) :
               LET kept == <<1>> \o KeptFrom(rc_rows, 2)
               IN rc_out.value[r] = [x \in 1..Len(kept) |-> rc_rows[r][kept[x]]]

\* C12 as amended: the statement of C12 for rows that have at least one
\* column; on rows without columns the function raises IndexError.
C12_WithColumns ==
    rc_pc = "returned" =>
        IF \E r \in 1..Len(rc_rows) : rc_rows[r] = <<>>
        THEN rc_out.raised
        ELSE /\ ~rc_out.raised
             /\ Len(rc_out.value) = Len(rc_rows)
             /\ \A r \in 1..Len(rc_rows) :
                    LET kept == <<1>> \o KeptFrom(rc_rows, 2)
                    IN rc_out.value[r] = [x \in 1..Len(kept) |-> rc_rows[r][kept[x]]]

\* Two or more rows of three columns were reduced: the second column was
\* dropped and the third retained.
C12_Witness ==
    /\ rc_pc = "returned"
    /\ ~rc_out.raised
    /\ Len(rc_rows) >= 2
    /\ Len(rc_rows[1]) = 3
    /\ ~Changes(rc_rows, 2)
    /\ Changes(rc_rows, 3)
    /\ \A r \in 1..Len(rc_rows) : Len(rc_out.value[r]) = 2

====
